---- MODULE Spec2Model ----
(***************************************************************************)
(* Model of src/src/digit.rs (crate septem): the Roman digit codec.        *)
(*                                                                         *)
(* The crate is a library of pure functions.  One behaviour of the model   *)
(* is one call: Init picks the function and its argument, the actions      *)
(* execute the body of the function (the loops one iteration per step),    *)
(* and the call ends in pc = "done" with the returned value in ret, or in  *)
(* pc = "panicked" when a checked operation of the body fails.             *)
(*                                                                         *)
(* The default build is modelled: the variants and match arms under        *)
(* #[cfg(feature = "archaic")] are not compiled.                           *)
(*                                                                         *)
(* A char is modelled by its Unicode scalar value, a u8 by its value, a    *)
(* Digit by the name of its variant, a Vec<Digit> / &[Digit] by a          *)
(* sequence.  Rust indexes from 0, TLA+ from 1: Index does the shift.      *)
(***************************************************************************)
EXTENDS Integers, Sequences, FiniteSets, TLC

VARIABLES
    op,      \* the function called
    pc,      \* position in its body
    num,     \* from_int: the argument, as u32
    n,       \* from_int: let mut n
    entry,   \* from_int: position of the `for` iterator in TABLE (1-based)
    result,  \* from_int: let mut result
    digits,  \* value_of: the argument
    i,       \* value_of: let mut i
    total,   \* value_of: let mut total
    c,       \* from_char: the argument
    b,       \* from_byte: the argument
    ret,     \* the value returned
    fault    \* why the call panicked, "none" while it has not

vars == <<op, pc, num, n, entry, result, digits, i, total, c, b, ret, fault>>

(***************************************************************************)
(* Bounds of the explored inputs.                                          *)
(***************************************************************************)
MaxNum == 4100     \* from_int is called with 0..MaxNum
MaxLen == 5        \* value_of is called with every sequence of <= MaxLen digits
MaxChar == 8600    \* from_char is called with the chars U+0000..MaxChar

(***************************************************************************)
(* enum Digit                                                              *)
(***************************************************************************)
Digit == {"I", "V", "X", "L", "C", "D", "M"}

\* Digit::value
value(d) ==
    CASE d = "I" -> 1
      [] d = "V" -> 5
      [] d = "X" -> 10
      [] d = "L" -> 50
      [] d = "C" -> 100
      [] d = "D" -> 500
      [] d = "M" -> 1000

(***************************************************************************)
(* Result<T> and the returned values.                                      *)
(***************************************************************************)
NoRet == [tag |-> "none", val |-> 0]
Ok(v) == [tag |-> "Ok", val |-> v]
InvalidNumber(v) == [tag |-> "InvalidNumber", val |-> v]
InvalidDigit(ch) == [tag |-> "InvalidDigit", val |-> ch]

(***************************************************************************)
(* Digit::from_int                                                         *)
(***************************************************************************)
\* a plausible slip: the subtractive form of 4 is left out of the table
TABLE_NoFour ==
    << [value |-> 1000, digits |-> <<"M">>],
       [value |-> 900,  digits |-> <<"C", "M">>],
       [value |-> 500,  digits |-> <<"D">>],
       [value |-> 400,  digits |-> <<"C", "D">>],
       [value |-> 100,  digits |-> <<"C">>],
       [value |-> 90,   digits |-> <<"X", "C">>],
       [value |-> 50,   digits |-> <<"L">>],
       [value |-> 40,   digits |-> <<"X", "L">>],
       [value |-> 10,   digits |-> <<"X">>],
       [value |-> 9,    digits |-> <<"I", "X">>],
       [value |-> 5,    digits |-> <<"V">>],
       [value |-> 1,    digits |-> <<"I">>] >>

\* a plausible slip: the entries for 900 and 500 are in the wrong order
TABLE_Unsorted ==
    << [value |-> 1000, digits |-> <<"M">>],
       [value |-> 500,  digits |-> <<"D">>],
       [value |-> 900,  digits |-> <<"C", "M">>],
       [value |-> 400,  digits |-> <<"C", "D">>],
       [value |-> 100,  digits |-> <<"C">>],
       [value |-> 90,   digits |-> <<"X", "C">>],
       [value |-> 50,   digits |-> <<"L">>],
       [value |-> 40,   digits |-> <<"X", "L">>],
       [value |-> 10,   digits |-> <<"X">>],
       [value |-> 9,    digits |-> <<"I", "X">>],
       [value |-> 5,    digits |-> <<"V">>],
       [value |-> 4,    digits |-> <<"I", "V">>],
       [value |-> 1,    digits |-> <<"I">>] >>

TABLE ==
    << [value |-> 1000, digits |-> <<"M">>],
       [value |-> 900,  digits |-> <<"C", "M">>],
       [value |-> 500,  digits |-> <<"D">>],
       [value |-> 400,  digits |-> <<"C", "D">>],
       [value |-> 100,  digits |-> <<"C">>],
       [value |-> 90,   digits |-> <<"X", "C">>],
       [value |-> 50,   digits |-> <<"L">>],
       [value |-> 40,   digits |-> <<"X", "L">>],
       [value |-> 10,   digits |-> <<"X">>],
       [value |-> 9,    digits |-> <<"I", "X">>],
       [value |-> 5,    digits |-> <<"V">>],
       [value |-> 4,    digits |-> <<"I", "V">>],
       [value |-> 1,    digits |-> <<"I">>] >>

\* a plausible slip: the two digits of a pair are pushed in the wrong order
Extend_Swapped(res, ds, count) ==
    CASE Len(ds) = 1 -> res \o [k \in 1..count |-> ds[1]]
      [] Len(ds) = 2 -> res \o [k \in 1..(2 * count) |->
                                   IF k % 2 = 1 THEN ds[2] ELSE ds[1]]

\* the `match digits` of the loop body: result after `count` copies of ds
Extend(res, ds, count) ==
    CASE Len(ds) = 1 -> res \o [k \in 1..count |-> ds[1]]
      [] Len(ds) = 2 -> res \o [k \in 1..(2 * count) |->
                                   IF k % 2 = 1 THEN ds[1] ELSE ds[2]]

\* a plausible slip: `n -= value` for `n %= value`
FromIntBody_SubtractOnce(st) ==
    LET e == TABLE[st.entry]
        count == st.n \div e.value
    IN  [n      |-> IF count > 0 THEN st.n - e.value ELSE st.n,
         entry  |-> st.entry + 1,
         result |-> Extend(st.result, e.digits, count)]

\* one iteration of `for &(value, digits) in TABLE` that does not break
FromIntBody(st) ==
    LET e == TABLE[st.entry]
        count == st.n \div e.value
    IN  [n      |-> st.n % e.value,
         entry  |-> st.entry + 1,
         result |-> Extend(st.result, e.digits, count)]

\* the loop is left: TABLE is exhausted, or `if n == 0 { break; }`
FromIntExit(st) == st.entry > Len(TABLE) \/ st.n = 0

RECURSIVE FromIntLoop(_)
FromIntLoop(st) ==
    IF FromIntExit(st) THEN st.result ELSE FromIntLoop(FromIntBody(st))

\* a plausible slip: the zero check never fires on an unsigned n
IsZero_Negative(x) == x < 0

\* `if n == 0` before the table is walked
IsZero(x) == x = 0

\* Digit::from_int as a function of its argument
from_int(x) ==
    LET n0 == x            \* num.into(): T: Into<u32> widens, never truncates
    IN  IF IsZero(n0)
        THEN InvalidNumber(n0)
        ELSE Ok(FromIntLoop([n |-> n0, entry |-> 1, result |-> <<>>]))

(***************************************************************************)
(* Digit::value_of, with T an unsigned integer type.  The additions stay   *)
(* below MaxLen * 1000, far from the width of any T: From<u32>, so only    *)
(* the indexing and the subtraction are checked operations here.           *)
(***************************************************************************)
\* digits[k]: Rust panics when k is out of bounds
InBounds(ds, k) == k < Len(ds)
Index(ds, k) == ds[k + 1]

\* a plausible slip: `i + 1 <= digits.len()` in the look-ahead test
ValueOfBody_OffByOne(st) ==
    LET ds == st.digits
        k  == st.i
    IN  IF ~InBounds(ds, k)
        THEN [st EXCEPT !.fault = "index out of bounds"]
        ELSE
        LET curr == value(Index(ds, k))
            plain == [st EXCEPT !.total = st.total + curr, !.i = k + 1]
        IN  IF k + 1 <= Len(ds)
            THEN IF ~InBounds(ds, k + 1)
                 THEN [st EXCEPT !.fault = "index out of bounds"]
                 ELSE
                 LET next == value(Index(ds, k + 1))
                 IN  IF curr < next
                     THEN IF next - curr < 0
                          THEN [st EXCEPT !.fault = "subtract overflow"]
                          ELSE [st EXCEPT !.total = st.total + (next - curr),
                                          !.i = k + 2]
                     ELSE plain
            ELSE plain

\* a plausible slip: `i += 1` after a subtractive pair
ValueOfBody_Reuse(st) ==
    LET ds == st.digits
        k  == st.i
    IN  IF ~InBounds(ds, k)
        THEN [st EXCEPT !.fault = "index out of bounds"]
        ELSE
        LET curr == value(Index(ds, k))
            plain == [st EXCEPT !.total = st.total + curr, !.i = k + 1]
        IN  IF k + 1 < Len(ds)
            THEN IF ~InBounds(ds, k + 1)
                 THEN [st EXCEPT !.fault = "index out of bounds"]
                 ELSE
                 LET next == value(Index(ds, k + 1))
                 IN  IF curr < next
                     THEN IF next - curr < 0
                          THEN [st EXCEPT !.fault = "subtract overflow"]
                          ELSE [st EXCEPT !.total = st.total + (next - curr),
                                          !.i = k + 1]
                     ELSE plain
            ELSE plain

\* one iteration of `while i < digits.len()`; fault is the checked
\* operation that failed, if any
ValueOfBody(st) ==
    LET ds == st.digits
        k  == st.i
    IN  IF ~InBounds(ds, k)
        THEN [st EXCEPT !.fault = "index out of bounds"]
        ELSE
        LET curr == value(Index(ds, k))
            plain == [st EXCEPT !.total = st.total + curr, !.i = k + 1]
        IN  IF k + 1 < Len(ds)
            THEN IF ~InBounds(ds, k + 1)
                 THEN [st EXCEPT !.fault = "index out of bounds"]
                 ELSE
                 LET next == value(Index(ds, k + 1))
                 IN  IF curr < next
                     THEN IF next - curr < 0
                          THEN [st EXCEPT !.fault = "subtract overflow"]
                          ELSE [st EXCEPT !.total = st.total + (next - curr),
                                          !.i = k + 2]
                     ELSE plain
            ELSE plain

\* the `while` condition
ValueOfCond(st) == st.i < Len(st.digits)

RECURSIVE ValueOfLoop(_)
ValueOfLoop(st) ==
    IF st.fault # "none" THEN st
    ELSE IF ValueOfCond(st) THEN ValueOfLoop(ValueOfBody(st))
    ELSE st

\* Digit::value_of as a function of its argument; -1 stands for a panic
value_of(ds) ==
    LET fin == ValueOfLoop([digits |-> ds, i |-> 0, total |-> 0, fault |-> "none"])
    IN  IF fin.fault = "none" THEN fin.total ELSE -1

(***************************************************************************)
(* Digit::from_char and Digit::from_byte                                   *)
(***************************************************************************)
\* the arms of `match c`, in order: the patterns of the arm and its vec![..]
ARMS ==
    << [pats |-> {8544, 8560, 73, 105},  digits |-> <<"I">>],                 \* U+2160 U+2170 I i
       [pats |-> {8545, 8561},           digits |-> <<"I", "I">>],            \* U+2161 U+2171
       [pats |-> {8546, 8562},           digits |-> <<"I", "I", "I">>],       \* U+2162 U+2172
       [pats |-> {8547, 8563},           digits |-> <<"I", "V">>],            \* U+2163 U+2173
       [pats |-> {8548, 8564, 86, 118},  digits |-> <<"V">>],                 \* U+2164 U+2174 V v
       [pats |-> {8549, 8565},           digits |-> <<"V", "I">>],            \* U+2165 U+2175
       [pats |-> {8550, 8566},           digits |-> <<"V", "I", "I">>],       \* U+2166 U+2176
       [pats |-> {8551, 8567},           digits |-> <<"V", "I", "I", "I">>],  \* U+2167 U+2177
       [pats |-> {8552, 8568},           digits |-> <<"I", "X">>],            \* U+2168 U+2178
       [pats |-> {8553, 8569, 88, 120},  digits |-> <<"X">>],                 \* U+2169 U+2179 X x
       [pats |-> {8554, 8570},           digits |-> <<"X", "I">>],            \* U+216A U+217A
       [pats |-> {8555, 8571},           digits |-> <<"X", "I", "I">>],       \* U+216B U+217B
       [pats |-> {8556, 8572, 76, 108},  digits |-> <<"L">>],                 \* U+216C U+217C L l
       [pats |-> {8557, 8573, 67, 99},   digits |-> <<"C">>],                 \* U+216D U+217D C c
       [pats |-> {8558, 8574, 68, 100},  digits |-> <<"D">>],                 \* U+216E U+217E D d
       [pats |-> {8559, 8575, 77, 109},  digits |-> <<"M">>] >>               \* U+216F U+217F M m

\* the arms whose pattern matches ch; `match` takes the first
Matching(ch) == {k \in 1..Len(ARMS) : ch \in ARMS[k].pats}
FirstOf(S) == CHOOSE k \in S : \A m \in S : k <= m

\* a plausible slip: the catch-all arm yields an empty vector, not an error
from_char_EmptyOnUnknown(ch) ==
    IF Matching(ch) # {}
    THEN Ok(ARMS[FirstOf(Matching(ch))].digits)
    ELSE Ok(<<>>)

from_char(ch) ==
    IF Matching(ch) # {}
    THEN Ok(ARMS[FirstOf(Matching(ch))].digits)
    ELSE InvalidDigit(ch)

\* `b.into()`: u8 -> char maps the byte to the scalar value of the same number
ByteToChar(x) == x

\* a plausible slip: the lowercase patterns are forgotten
from_byte_UpperOnly(x) ==
    CASE x = 73  -> Ok("I")
      [] x = 86  -> Ok("V")
      [] x = 88  -> Ok("X")
      [] x = 76  -> Ok("L")
      [] x = 67  -> Ok("C")
      [] x = 68  -> Ok("D")
      [] x = 77  -> Ok("M")
      [] OTHER   -> InvalidDigit(ByteToChar(x))

from_byte(x) ==
    CASE x \in {73, 105}  -> Ok("I")
      [] x \in {86, 118}  -> Ok("V")
      [] x \in {88, 120}  -> Ok("X")
      [] x \in {76, 108}  -> Ok("L")
      [] x \in {67, 99}   -> Ok("C")
      [] x \in {68, 100}  -> Ok("D")
      [] x \in {77, 109}  -> Ok("M")
      [] OTHER            -> InvalidDigit(ByteToChar(x))

(***************************************************************************)
(* The calls.                                                              *)
(***************************************************************************)
\* the arguments of value_of: the sequences of at most MaxLen digits
DigitSeqs == UNION {[1..len -> Digit] : len \in 0..MaxLen}

\* the variables of the functions that are not called
IdleFromInt == num = 0
IdleValueOf == digits = <<>>
IdleFromChar == c = 0
IdleFromByte == b = 0

Init ==
    /\ pc = "call"
    /\ ret = NoRet
    /\ fault = "none"
    /\ n = 0 /\ entry = 0 /\ result = <<>> /\ i = 0 /\ total = 0
    /\ \/ /\ op = "from_int"
          /\ num \in 0..MaxNum
          /\ IdleValueOf /\ IdleFromChar /\ IdleFromByte
       \/ /\ op = "value_of"
          /\ digits \in DigitSeqs
          /\ IdleFromInt /\ IdleFromChar /\ IdleFromByte
       \/ /\ op = "from_char"
          /\ c \in 0..MaxChar
          /\ IdleFromInt /\ IdleValueOf /\ IdleFromByte
       \/ /\ op = "from_byte"
          /\ b \in 0..255
          /\ IdleFromInt /\ IdleValueOf /\ IdleFromChar

\* from_int, up to the loop: `let mut n = num.into()`, the zero check, and
\* the empty result
FromIntEnter ==
    /\ op = "from_int" /\ pc = "call"
    /\ n' = num
    /\ IF IsZero(n')
       THEN /\ ret' = InvalidNumber(n')
            /\ pc' = "done"
            /\ UNCHANGED <<entry, result>>
       ELSE /\ entry' = 1
            /\ result' = <<>>
            /\ pc' = "loop"
            /\ UNCHANGED ret
    /\ UNCHANGED <<op, num, digits, i, total, c, b, fault>>

\* from_int: one iteration of the loop over TABLE
FromIntIter ==
    /\ op = "from_int" /\ pc = "loop"
    /\ ~FromIntExit([n |-> n, entry |-> entry, result |-> result])
    /\ LET st == FromIntBody([n |-> n, entry |-> entry, result |-> result])
       IN  /\ n' = st.n
           /\ entry' = st.entry
           /\ result' = st.result
    /\ UNCHANGED <<op, pc, num, digits, i, total, c, b, ret, fault>>

\* from_int: the loop is left and Ok(result) returned
FromIntReturn ==
    /\ op = "from_int" /\ pc = "loop"
    /\ FromIntExit([n |-> n, entry |-> entry, result |-> result])
    /\ ret' = Ok(result)
    /\ pc' = "done"
    /\ UNCHANGED <<op, num, n, entry, result, digits, i, total, c, b, fault>>

\* value_of, up to the loop: total = T::default(), i = 0
ValueOfEnter ==
    /\ op = "value_of" /\ pc = "call"
    /\ total' = 0
    /\ i' = 0
    /\ pc' = "loop"
    /\ UNCHANGED <<op, num, n, entry, result, digits, c, b, ret, fault>>

\* value_of: one iteration of the while loop
ValueOfIter ==
    /\ op = "value_of" /\ pc = "loop"
    /\ ValueOfCond([digits |-> digits, i |-> i])
    /\ LET st == ValueOfBody([digits |-> digits, i |-> i, total |-> total,
                              fault |-> "none"])
       IN  /\ i' = st.i
           /\ total' = st.total
           /\ fault' = st.fault
           /\ pc' = IF st.fault = "none" THEN "loop" ELSE "panicked"
    /\ UNCHANGED <<op, num, n, entry, result, digits, c, b, ret>>

\* value_of: the loop is left and total returned
ValueOfReturn ==
    /\ op = "value_of" /\ pc = "loop"
    /\ ~ValueOfCond([digits |-> digits, i |-> i])
    /\ ret' = [tag |-> "Value", val |-> total]
    /\ pc' = "done"
    /\ UNCHANGED <<op, num, n, entry, result, digits, i, total, c, b, fault>>

FromCharCall ==
    /\ op = "from_char" /\ pc = "call"
    /\ ret' = from_char(c)
    /\ pc' = "done"
    /\ UNCHANGED <<op, num, n, entry, result, digits, i, total, c, b, fault>>

FromByteCall ==
    /\ op = "from_byte" /\ pc = "call"
    /\ ret' = from_byte(b)
    /\ pc' = "done"
    /\ UNCHANGED <<op, num, n, entry, result, digits, i, total, c, b, fault>>

Next ==
    \/ FromIntEnter
    \/ FromIntIter
    \/ FromIntReturn
    \/ ValueOfEnter
    \/ ValueOfIter
    \/ ValueOfReturn
    \/ FromCharCall
    \/ FromByteCall

Spec == Init /\ [][Next]_vars

\* every call runs to its end
FairSpec == Spec /\ WF_vars(Next)

TypeOK ==
    /\ op \in {"from_int", "value_of", "from_char", "from_byte"}
    /\ pc \in {"call", "loop", "done", "panicked"}
    /\ num \in 0..MaxNum
    /\ n \in 0..MaxNum
    /\ entry \in 0..(Len(TABLE) + 1)
    /\ i \in Nat
    /\ total \in Nat

(***************************************************************************)
(* Vocabulary of the properties.                                           *)
(***************************************************************************)
\* the range the base symbol set represents
Representable == 1..3999

\* from_int has returned / value_of has returned / ...
FromIntDone == op = "from_int" /\ pc = "done"
ValueOfDone == op = "value_of" /\ pc = "done"
FromCharDone == op = "from_char" /\ pc = "done"
FromByteDone == op = "from_byte" /\ pc = "done"

\* four or more consecutive identical symbols
HasRunOfFour(s) ==
    \E k \in 1..(Len(s) - 3) : s[k] = s[k + 1] /\ s[k] = s[k + 2] /\ s[k] = s[k + 3]

\* the reference value of a sequence of symbols
RECURSIVE D(_)
D(s) ==
    IF Len(s) = 0 THEN 0
    ELSE IF Len(s) = 1 THEN value(s[1])
    ELSE IF value(s[1]) < value(s[2])
         THEN (value(s[2]) - value(s[1])) + D(Tail(Tail(s)))
         ELSE value(s[1]) + D(Tail(s))

\* the subtractive pairs of a sequence, read left to right
RECURSIVE SubtractivePairs(_)
SubtractivePairs(s) ==
    IF Len(s) < 2 THEN <<>>
    ELSE IF value(s[1]) < value(s[2])
         THEN <<SubSeq(s, 1, 2)>> \o SubtractivePairs(Tail(Tail(s)))
         ELSE SubtractivePairs(Tail(s))

\* the six subtractive forms of Roman notation
StandardPairs ==
    { <<"I", "V">>, <<"I", "X">>, <<"X", "L">>, <<"X", "C">>, <<"C", "D">>, <<"C", "M">> }

\* every subtractive pair of s is a standard form, and none occurs twice
StandardPairsOnce(s) ==
    LET ps == SubtractivePairs(s)
    IN  /\ \A k \in 1..Len(ps) : ps[k] \in StandardPairs
        /\ \A k, m \in 1..Len(ps) : k # m => ps[k] # ps[m]

\* the Unicode Roman-numeral glyph for k, U+2160.. and U+2170..
UpperGlyph(k) == 8543 + k
LowerGlyph(k) == 8559 + k

\* the ASCII letters I V X L C D M, upper and lower case
AsciiUpper == {73, 86, 88, 76, 67, 68, 77}
AsciiLetters == AsciiUpper \cup {u + 32 : u \in AsciiUpper}

\* the symbol an uppercase ASCII letter stands for
LetterDigit(u) ==
    CASE u = 73 -> "I" [] u = 86 -> "V" [] u = 88 -> "X" [] u = 76 -> "L"
      [] u = 67 -> "C" [] u = 68 -> "D" [] u = 77 -> "M"

\* the numeral characters: the ASCII letters and U+2160..U+217F
Recognized == AsciiLetters \cup (8544..8575)

(***************************************************************************)
(* Properties.                                                             *)
(***************************************************************************)

\* C1: round trip.  For every n in 1..3999, from_int(n) succeeds and
\* value_of of the returned digits is n.
C1_RoundTrip ==
    (FromIntDone /\ num \in Representable)
        => (ret.tag = "Ok" /\ value_of(ret.val) = num)

C1_Witness ==
    /\ FromIntDone /\ num = 1994
    /\ ret.tag = "Ok"
    /\ ret.val = <<"M", "C", "M", "X", "C", "I", "V">>
    /\ value_of(ret.val) = 1994

\* C2: zero rejection.  from_int(0) fails with InvalidNumber(0) before the
\* loop is entered and before any symbol is appended; no error is ever
\* accompanied by digits; from_int(n) for n in 1..3999 is not InvalidNumber.
C2_ZeroRejection ==
    /\ (op = "from_int" /\ num = 0) => (pc \in {"call", "done"} /\ result = <<>>)
    /\ (FromIntDone /\ num = 0)
          => (ret.tag = "InvalidNumber" /\ ret.val = 0 /\ entry = 0)
    /\ (FromIntDone /\ ret.tag = "InvalidNumber") => (result = <<>> /\ entry = 0)
    /\ (FromIntDone /\ num \in Representable) => ret.tag # "InvalidNumber"

C2_Witness ==
    /\ FromIntDone /\ num = 0
    /\ ret.tag = "InvalidNumber" /\ ret.val = 0
    /\ result = <<>>

\* C3: from_int(n) returns an error for every n > 3999.
C3_TooLargeRejected ==
    (FromIntDone /\ num > 3999) => ret.tag # "Ok"

\* C4: no four in a row.  For every n in 1..3999 the digits returned by
\* from_int(n) contain no four consecutive identical symbols.
C4_NoFourInARow ==
    (FromIntDone /\ num \in Representable)
        => (ret.tag = "Ok" /\ ~HasRunOfFour(ret.val))

C4_Witness ==
    /\ FromIntDone /\ num = 3888
    /\ ret.tag = "Ok"
    /\ ret.val = <<"M", "M", "M", "D", "C", "C", "C", "L", "X", "X", "X",
                   "V", "I", "I", "I">>
    /\ ~HasRunOfFour(ret.val)

\* C5 as stated: minimal length.  No sequence of symbols whose value_of is
\* n in 1..3999 has fewer symbols than from_int(n).
C5_MinimalLength ==
    (ValueOfDone /\ ret.val \in Representable)
        => Len(digits) >= Len(from_int(ret.val).val)

\* C5 as amended: minimal length among the sequences whose subtractive pairs
\* are standard forms used at most once.  No sequence of symbols whose
\* value_of is n in 1..3999, and in which every subtractive pair is one of
\* IV, IX, XL, XC, CD, CM and occurs at most once, has fewer symbols than
\* from_int(n).
C5_MinimalAmongStandard ==
    (ValueOfDone /\ ret.val \in Representable /\ StandardPairsOnce(digits))
        => Len(digits) >= Len(from_int(ret.val).val)

\* a standard sequence other than the canonical one, of the same length
C5_Witness ==
    /\ ValueOfDone
    /\ digits = <<"I", "X", "I", "V">>
    /\ ret.val = 13
    /\ StandardPairsOnce(digits)
    /\ from_int(13).val = <<"X", "I", "I", "I">>

\* C6: decoder leniency.  On every sequence of symbols the scan of value_of
\* never fails (no read past the end, no subtraction that underflows), the
\* cursor stays within the sequence and strictly increases with every
\* iteration, the scan ends with the cursor at the length of the sequence,
\* and a non-negative integer is returned.
C6_ScanSafe ==
    op = "value_of" =>
        /\ pc # "panicked" /\ fault = "none"
        /\ i >= 0 /\ i <= Len(digits)
        /\ total >= 0
        /\ pc = "done" => (i = Len(digits) /\ ret.tag = "Value" /\ ret.val >= 0)

C6_DecoderLeniency ==
    /\ []C6_ScanSafe
    /\ [][(op = "value_of" /\ pc = "loop" /\ pc' = "loop") => i' > i]_vars
    /\ (op = "value_of") ~> (pc = "done")

\* a sequence no encoder produces, scanned to its end
C6_Witness ==
    /\ ValueOfDone
    /\ digits = <<"I", "I", "X", "V", "L">>
    /\ i = 5
    /\ ret.tag = "Value" /\ ret.val = 55
    /\ fault = "none"

\* C7: subtractive-pair decoding.  value_of(s) is the reference value D(s);
\* the larger half of a pair is not reused as the smaller half of the next.
C7_SubtractivePairs ==
    ValueOfDone => (ret.tag = "Value" /\ ret.val = D(digits))

C7_Witness ==
    /\ ValueOfDone
    /\ digits = <<"X", "I", "V">>
    /\ ret.val = 14
    /\ D(digits) = 14

\* C8: composite glyph expansion.  For k in 1..12 the uppercase and the
\* lowercase glyph for k give the same digits, which are from_int(k) and
\* whose value is k.
C8_CompositeGlyphs ==
    FromCharDone =>
        \A k \in 1..12 :
            c \in {UpperGlyph(k), LowerGlyph(k)} =>
                /\ ret.tag = "Ok"
                /\ from_int(k).tag = "Ok"
                /\ ret.val = from_int(k).val
                /\ from_char(UpperGlyph(k)).val = ret.val
                /\ from_char(LowerGlyph(k)).val = ret.val
                /\ value_of(ret.val) = k

C8_Witness ==
    /\ FromCharDone
    /\ c = UpperGlyph(8)
    /\ ret.tag = "Ok"
    /\ ret.val = <<"V", "I", "I", "I">>
    /\ from_char(LowerGlyph(4)).val = <<"I", "V">>

\* C9: the byte mapper agrees with the glyph mapper.  from_byte(b) is Ok(d)
\* exactly when from_char(b as char) is [d]; upper and lower case of the
\* letters I V X L C D M give the same symbol; on every other byte both
\* fail with InvalidDigit carrying the char of b.
C9_ByteAgreesWithGlyph ==
    FromByteDone =>
        LET fc == from_char(ByteToChar(b))
        IN  /\ ret.tag \in {"Ok", "InvalidDigit"}
            /\ ret.tag = "Ok" <=> (fc.tag = "Ok" /\ Len(fc.val) = 1)
            /\ ret.tag = "Ok" => fc.val = <<ret.val>>
            /\ b \in AsciiUpper =>
                   (ret.tag = "Ok" /\ ret.val = LetterDigit(b)
                    /\ from_byte(b + 32).tag = "Ok"
                    /\ from_byte(b + 32).val = ret.val)
            /\ (b - 32) \in AsciiUpper =>
                   (ret.tag = "Ok" /\ ret.val = LetterDigit(b - 32))
            /\ b \notin AsciiLetters =>
                   (/\ ret.tag = "InvalidDigit" /\ ret.val = b
                    /\ fc.tag = "InvalidDigit" /\ fc.val = b)

C9_Witness ==
    /\ FromByteDone
    /\ b = 118
    /\ ret.tag = "Ok" /\ ret.val = "V"
    /\ from_char(118).val = <<"V">>

\* C10: invalid glyph.  from_char(c) fails exactly when c is not a numeral
\* character (an ASCII letter I V X L C D M of either case, or a glyph of
\* U+2160..U+217F); the failure is InvalidDigit carrying c; every numeral
\* character gives a non-empty digit sequence.
C10_InvalidGlyph ==
    FromCharDone =>
        IF c \in Recognized
        THEN ret.tag = "Ok" /\ Len(ret.val) > 0
        ELSE ret.tag = "InvalidDigit" /\ ret.val = c

C10_Witness ==
    /\ FromCharDone
    /\ c = 65
    /\ ret.tag = "InvalidDigit" /\ ret.val = 65
====
